---- MODULE Spec2Model ----
(***************************************************************************)
(* Trust core of the KUB back-end: refresh-token issuance and rotation     *)
(* (handlers/auth_handler.go, repositories/client_repository.go) and the   *)
(* strict one-time-code policy for phone verification                      *)
(* (services/sms_service.go, repositories/user_verification_repository.go).*)
(* The document workflow (services/document_service.go) is the third part: *)
(* Submit, Review, Sign and SignBySMS each read a row and then write it.   *)
(* HTTP handlers run concurrently; every SQL statement is one atomic step. *)
(***************************************************************************)
EXTENDS Integers, Naturals, Sequences, FiniteSets, TLC

(* ---------- bounds ---------- *)
NumUsers == 2
NumLogin == 1
NumRefresh == 2
MaxTokens == 3
MaxTime == 2
NumSend == 1
NumConfirm == 1
NumOtpUsers == 1
NumCodes == 2
MaxRows == 2
OtpMaxTime == 3
MaxSends == 4
WindowMaxTime == 6
NumDocs == 1
NumDocProcs == 2
DocMaxTime == 1
NumCapProcs == 3
MaxSmsRows == 2
SmsMaxTime == 3

(* ---------- program constants ---------- *)
\* 30 * 24h refresh lifetime, in clock ticks of the credential model
RefreshTTL == 1
\* strict one-time-code policy; one clock tick of the verification model is 2.5 minutes
maxResendsPerWindow == 3
resendWindow == 4
maxConfirmAttempts == 5
defaultVerificationTTL == 2
\* authz role ids
RoleStaff == 15
RoleSales == 10
RoleOperations == 20
RoleAudit == 30
RoleManagement == 40
RoleAdmin == 50

Users == 1..NumUsers
LoginProcs == 1..NumLogin
RefreshProcs == 1..NumRefresh
Tokens == 1..MaxTokens
Passwords == {1, 2}
SendProcs == 1..NumSend
\* the accounts whose phone is being verified
OtpUsers == 1..NumOtpUsers
ConfirmProcs == 1..NumConfirm
\* ConfirmUserCode calls that arrive together for one user
CapProcs == 1..NumCapProcs
\* the 6-digit codes generateCode can draw
Codes == 1..NumCodes
Docs == 1..NumDocs
DocProcs == 1..NumDocProcs

\* SQL NULL / Go nil
NULL == -1
\* an e-mail address no row of users carries
UnknownEmail == 0
\* a refresh_token string the server never generated
GarbageToken == -2

VARIABLES
  now,       \* wall clock (time.Now() / SQL NOW())
  users,     \* table users: id -> row
  nextTok,   \* number of refresh tokens drawn from crypto/rand so far, plus one
  retired,   \* history: token -> how it stopped being a stored refresh_token
  login,     \* in-flight POST /login requests
  refresh,   \* in-flight POST /refresh requests
  verifs,    \* table user_verifications, in insertion order (id = index)
  send,      \* in-flight SendUserSMS calls
  confirm,   \* in-flight ConfirmUserCode calls
  lockedOut, \* history: ids of rows whose confirm returned ErrTooManyAttempts
  smsOut,    \* number of SMS texts handed to the gateway
  docs,      \* table documents: id -> row (status, signed_at)
  docreq,    \* in-flight document workflow calls
  docres,    \* the answer of the document workflow call that returned last
  smsrecs,   \* table sms_confirmations, in insertion order (id = index)
  smsreq     \* the SendSMS / ResendSMS / ConfirmCode call in flight, or its answer

authVars == <<users, nextTok, retired, login, refresh>>
otpVars == <<verifs, send, confirm, lockedOut, smsOut>>
docVars == <<docs, docreq, docres>>
smsVars == <<smsrecs, smsreq>>
vars == <<now, users, nextTok, retired, login, refresh, verifs, send, confirm, lockedOut, smsOut,
          docs, docreq, docres, smsrecs, smsreq>>

(* ======================= credential store ======================= *)

\* bcrypt.GenerateFromPassword: one-way, injective on the modelled passwords
BcryptHash(pw) == 10 + pw

\* bcrypt.CompareHashAndPassword(hash, pw) == nil
CompareHashAndPassword(hash, pw) == hash = BcryptHash(pw)

\* the password each seeded account was registered with
PasswordOf(u) == 1

\* row written by userRepository.Create
NewUserRow(u) ==
  [ password_hash |-> BcryptHash(PasswordOf(u)),
    is_verified |-> FALSE,
    verified_at |-> NULL,
    refresh_token |-> NULL,
    refresh_expires_at |-> NULL,
    refresh_revoked |-> FALSE ]

\* the same row once the phone was confirmed (VerifyUser ran at time 0)
VerifiedUserRow(u) == [NewUserRow(u) EXCEPT !.is_verified = TRUE, !.verified_at = 0]

\* SELECT ... FROM users WHERE email = $1 (e-mail of user u is u)
GetByEmail(email) == IF email \in Users THEN email ELSE NULL

\* SELECT ... FROM users WHERE refresh_token = $1
GetByRefreshToken(token) ==
  IF \E u \in Users : users[u].refresh_token = token
  THEN CHOOSE u \in Users : users[u].refresh_token = token
  ELSE NULL

\* faulty variant: the statement forgets refresh_expires_at
UpdateRefreshKeepExpiry(userID, token, expiresAt) ==
  [users EXCEPT ![userID].refresh_token = token,
                ![userID].refresh_revoked = FALSE]

\* UPDATE users SET refresh_token=$1, refresh_expires_at=$2, refresh_revoked=FALSE WHERE id=$3
UpdateRefresh(userID, token, expiresAt) ==
  [users EXCEPT ![userID].refresh_token = token,
                ![userID].refresh_expires_at = expiresAt,
                ![userID].refresh_revoked = FALSE]

\* faulty variant: the statement matches any row that holds a token
RotateWhereAnyHolder(u, oldToken) == users[u].refresh_token # NULL

\* the WHERE clause of RotateRefresh
RotateWhere(u, oldToken) == users[u].refresh_token = oldToken

\* UPDATE users SET refresh_token=$1, ... WHERE <RotateWhere> RETURNING id, ...
\* uid = NULL stands for sql.ErrNoRows
RotateRefresh(oldToken, newToken, newExpiresAt) ==
  LET hit == {u \in Users : RotateWhere(u, oldToken)} IN
  IF hit = {}
  THEN [uid |-> NULL, users |-> users]
  ELSE LET u == CHOOSE x \in hit : TRUE IN
       [uid |-> u, users |-> UpdateRefresh(u, newToken, newExpiresAt)]

\* faulty variant: the revoke only raises the flag
ClearRefreshRowFlagOnly(userID) ==
  [users EXCEPT ![userID].refresh_revoked = TRUE]

\* UPDATE users SET refresh_token=NULL, refresh_expires_at=NULL, refresh_revoked=TRUE WHERE id=$1
ClearRefreshRow(userID) ==
  [users EXCEPT ![userID].refresh_token = NULL,
                ![userID].refresh_expires_at = NULL,
                ![userID].refresh_revoked = TRUE]

\* UPDATE users SET is_verified=TRUE, verified_at=NOW() WHERE id=$1
VerifyUserRow(userID) ==
  [users EXCEPT ![userID].is_verified = TRUE, ![userID].verified_at = now]

\* utils.NewRefreshToken(32): 256 random bits, never equal to an earlier token
NewRefreshToken == nextTok

\* history bookkeeping: tokens stored before a write and not after it
Retire(newUsers, cause) ==
  [t \in Tokens |->
     IF (\E u \in Users : users[u].refresh_token = t)
        /\ ~(\E u \in Users : newUsers[u].refresh_token = t)
     THEN cause ELSE retired[t]]

Stored(t) == \E u \in Users : users[u].refresh_token = t

(* ======================= POST /login ======================= *)

IdleLogin == [pc |-> "idle", email |-> NULL, pw |-> NULL, uid |-> NULL,
              rt |-> NULL, exp |-> NULL, res |-> "none"]

LoginFail(email, pw, res) ==
  [pc |-> "done", email |-> email, pw |-> pw, uid |-> NULL,
   rt |-> NULL, exp |-> NULL, res |-> res]

\* faulty variant: the verification gate is missing
NotVerifiedGateOff(u) == FALSE

\* if !user.IsVerified { 403 "Phone not verified" }
NotVerifiedGate(u) == ~users[u].is_verified

\* AuthHandler.Login up to the UpdateRefresh call: the outcome for the row read
LoginDecide(email, pw) ==
  LET u == GetByEmail(email) IN
  IF u = NULL THEN LoginFail(email, pw, "InvalidCredentials")
  ELSE IF NotVerifiedGate(u) THEN LoginFail(email, pw, "NotVerified")
  ELSE IF users[u].password_hash = NULL THEN LoginFail(email, pw, "InvalidCredentials")
  ELSE IF ~CompareHashAndPassword(users[u].password_hash, pw)
       THEN LoginFail(email, pw, "InvalidCredentials")
  ELSE [pc |-> "store", email |-> email, pw |-> pw, uid |-> u,
        rt |-> NewRefreshToken, exp |-> now + RefreshTTL, res |-> "none"]

\* request arrives: GetUserByEmail, the checks, token generation
LoginStart(l, email, pw) ==
  /\ login[l].pc \in {"idle", "done"}
  /\ nextTok <= MaxTokens
  /\ login' = [login EXCEPT ![l] = LoginDecide(email, pw)]
  /\ nextTok' = IF login'[l].pc = "store" THEN nextTok + 1 ELSE nextTok
  /\ UNCHANGED <<docVars, smsVars, now, users, retired, refresh, otpVars>>

\* h.userService.UpdateRefresh(user.ID, rt, rtExp) and the 200 answer
LoginStore(l) ==
  /\ login[l].pc = "store"
  /\ users' = UpdateRefresh(login[l].uid, login[l].rt, login[l].exp)
  /\ retired' = Retire(users', "login")
  /\ login' = [login EXCEPT ![l].pc = "done", ![l].res = "ok"]
  /\ UNCHANGED <<docVars, smsVars, now, nextTok, refresh, otpVars>>

(* ======================= POST /refresh ======================= *)

IdleRefresh == [pc |-> "idle", old |-> NULL, uid |-> NULL, new |-> NULL,
                exp |-> NULL, res |-> "none"]

RefreshFail(old, res) ==
  [pc |-> "done", old |-> old, uid |-> NULL, new |-> NULL, exp |-> NULL, res |-> res]

\* faulty variant: the expiry pre-check is missing
IsExpiredNever(expiresAt) == FALSE

\* time.Now().After(*user.RefreshExpiresAt)
IsExpired(expiresAt) == now > expiresAt

\* the handler's checks on the row read by GetByRefreshToken
RefreshPrecheck(old) ==
  LET u == GetByRefreshToken(old) IN
  IF u = NULL \/ users[u].refresh_token = NULL
     \/ users[u].refresh_expires_at = NULL \/ users[u].refresh_revoked
  THEN RefreshFail(old, "TokenInvalid")
  ELSE IF IsExpired(users[u].refresh_expires_at) THEN RefreshFail(old, "TokenExpired")
  ELSE [pc |-> "rotate", old |-> old, uid |-> u, new |-> NewRefreshToken,
        exp |-> now + RefreshTTL, res |-> "none"]

\* request arrives: GetByRefreshToken, pre-check, new token and expiry
RefreshStart(p, old) ==
  /\ refresh[p].pc \in {"idle", "done"}
  /\ nextTok <= MaxTokens
  /\ refresh' = [refresh EXCEPT ![p] = RefreshPrecheck(old)]
  /\ nextTok' = IF refresh'[p].pc = "rotate" THEN nextTok + 1 ELSE nextTok
  /\ UNCHANGED <<docVars, smsVars, now, users, retired, login, otpVars>>

\* faulty variant: the handler stores the new token by the id it read earlier
SwapCallByID(p) ==
  [uid |-> refresh[p].uid,
   users |-> UpdateRefresh(refresh[p].uid, refresh[p].new, refresh[p].exp)]

\* the call h.userService.RotateRefresh(old, newRT, newExp)
SwapCall(p) == RotateRefresh(refresh[p].old, refresh[p].new, refresh[p].exp)

\* the swap statement and the answer
RefreshRotate(p) ==
  /\ refresh[p].pc = "rotate"
  /\ LET r == SwapCall(p) IN
       /\ users' = r.users
       /\ retired' = Retire(r.users, "rotated")
       /\ refresh' = [refresh EXCEPT ![p].pc = "done",
                        ![p].res = IF r.uid = NULL THEN "TokenInvalid" ELSE "ok"]
  /\ UNCHANGED <<docVars, smsVars, now, nextTok, login, otpVars>>

\* userRepository.ClearRefresh(userID): logout / administrative revoke
ClearRefresh(u) ==
  /\ users' = ClearRefreshRow(u)
  /\ users' # users
  /\ retired' = Retire(users', "revoke")
  /\ UNCHANGED <<docVars, smsVars, now, nextTok, login, refresh, otpVars>>

\* time passes
TickWithin(maxTime) ==
  /\ now < maxTime
  /\ now' = now + 1
  /\ UNCHANGED <<docVars, smsVars, authVars, otpVars>>

Tick == TickWithin(MaxTime)


(* ======================= strict one-time codes ======================= *)

\* INSERT INTO user_verifications (...) VALUES ($1,$2,$3,$4,FALSE,0) RETURNING id
Create(userID, codeHash, sentAt, expiresAt) ==
  Append(verifs, [id |-> Len(verifs) + 1, user_id |-> userID, code_hash |-> codeHash,
                  sent_at |-> sentAt, expires_at |-> expiresAt,
                  confirmed |-> FALSE, attempts |-> 0])

\* ids of the rows of one user
RowsOf(userID) == {i \in DOMAIN verifs : verifs[i].user_id = userID}

\* faulty variant: ORDER BY sent_at ASC
GetOldestByUserID(userID) ==
  IF RowsOf(userID) = {} THEN NULL
  ELSE CHOOSE i \in RowsOf(userID) :
         \A j \in RowsOf(userID) : verifs[i].sent_at <= verifs[j].sent_at

\* SELECT ... WHERE user_id = $1 ORDER BY sent_at DESC LIMIT 1 (NULL: sql.ErrNoRows)
GetLatestByUserID(userID) ==
  IF RowsOf(userID) = {} THEN NULL
  ELSE CHOOSE i \in RowsOf(userID) :
         \A j \in RowsOf(userID) : verifs[j].sent_at <= verifs[i].sent_at

\* faulty variant: the count ignores the window
CountAllSends(userID, since) == Cardinality(RowsOf(userID))

\* SELECT COUNT(*) FROM user_verifications WHERE user_id = $1 AND sent_at >= $2
CountRecentSends(userID, since) ==
  Cardinality({i \in RowsOf(userID) : verifs[i].sent_at >= since})

\* faulty variant: the statement leaves attempts as it is
IncrementAttemptsSkipped(id) == verifs

\* UPDATE user_verifications SET attempts = attempts + 1 WHERE id = $1 RETURNING attempts
IncrementAttempts(id) == [verifs EXCEPT ![id].attempts = @ + 1]

\* faulty variant: the statement writes nothing
MarkConfirmedSkipped(id) == verifs

\* UPDATE user_verifications SET confirmed=TRUE WHERE id=$1
MarkConfirmed(id) == [verifs EXCEPT ![id].confirmed = TRUE]

\* faulty variant: the force-expiry writes nothing
ExpireNowSkipped(id) == verifs

\* UPDATE user_verifications SET expires_at = NOW() WHERE id=$1
ExpireNow(id) == [verifs EXCEPT ![id].expires_at = now]

(* ---- SMS_Service.SendUserSMS / ResendUserSMS ---- *)

IdleSend == [pc |-> "idle", uid |-> NULL, code |-> NULL, res |-> "none"]

\* since := time.Now().Add(-resendWindow); CountRecentSends; the throttle test
SendStart(s, userID, code) ==
  /\ send[s].pc \in {"idle", "done"}
  /\ LET cnt == CountRecentSends(userID, now - resendWindow) IN
       send' = [send EXCEPT ![s] =
                  IF cnt >= maxResendsPerWindow
                  THEN [pc |-> "done", uid |-> userID, code |-> NULL, res |-> "ResendThrottled"]
                  ELSE [pc |-> "create", uid |-> userID, code |-> code, res |-> "none"]]
  /\ UNCHANGED <<docVars, smsVars, now, authVars, verifs, confirm, lockedOut, smsOut>>

\* sentAt := time.Now(); VerifRepo.Create(userID, codeHash, sentAt, sentAt+ttl)
\* (a later clock reading is strictly later than the stored sent_at)
SendCreateWithin(s, maxRows, maxTime) ==
  /\ send[s].pc = "create"
  /\ now < maxTime
  /\ Len(verifs) < maxRows
  /\ verifs' = Create(send[s].uid, BcryptHash(send[s].code), now, now + defaultVerificationTTL)
  /\ now' = now + 1
  /\ send' = [send EXCEPT ![s].pc = "dispatch"]
  /\ UNCHANGED <<docVars, smsVars, authVars, confirm, lockedOut, smsOut>>

SendCreate(s) == SendCreateWithin(s, MaxRows, OtpMaxTime)

\* faulty variant: a failed dispatch takes the row back
SendDispatchRollback(s, delivered) ==
  /\ send[s].pc = "dispatch"
  /\ smsOut' = IF delivered THEN smsOut + 1 ELSE smsOut
  /\ verifs' = IF delivered THEN verifs ELSE SubSeq(verifs, 1, Len(verifs) - 1)
  /\ send' = [send EXCEPT ![s].pc = "done",
                          ![s].res = IF delivered THEN "ok" ELSE "DispatchError"]
  /\ UNCHANGED <<docVars, smsVars, now, authVars, confirm, lockedOut>>

\* s.Client.SendSMS(phone, text): the gateway accepts the text or fails
SendDispatch(s, delivered) ==
  /\ send[s].pc = "dispatch"
  /\ smsOut' = IF delivered THEN smsOut + 1 ELSE smsOut
  /\ send' = [send EXCEPT ![s].pc = "done",
                          ![s].res = IF delivered THEN "ok" ELSE "DispatchError"]
  /\ UNCHANGED <<docVars, smsVars, now, authVars, verifs, confirm, lockedOut>>

(* ---- SMS_Service.ConfirmUserCode ---- *)

IdleConfirm == [pc |-> "idle", uid |-> NULL, code |-> NULL, vid |-> NULL,
                attempts |-> NULL, res |-> "none"]

\* faulty variant: a record that is already confirmed is accepted again
ConfirmDecideConfirmedAgain(userID, code) ==
  LET v == GetLatestByUserID(userID)
      r == [pc |-> "done", uid |-> userID, code |-> code, vid |-> v,
            attempts |-> NULL, res |-> "none"]
  IN
  IF v = NULL THEN [r EXCEPT !.res = "CodeInvalid"]
  ELSE IF now > verifs[v].expires_at THEN [r EXCEPT !.res = "CodeExpired"]
  ELSE IF ~CompareHashAndPassword(verifs[v].code_hash, code) THEN [r EXCEPT !.pc = "inc"]
  ELSE [r EXCEPT !.pc = "mark"]

\* GetLatestByUserID, the confirmed / expiry tests and the bcrypt comparison
ConfirmDecide(userID, code) ==
  LET v == GetLatestByUserID(userID)
      r == [pc |-> "done", uid |-> userID, code |-> code, vid |-> v,
            attempts |-> NULL, res |-> "none"]
  IN
  IF v = NULL THEN [r EXCEPT !.res = "CodeInvalid"]
  ELSE IF verifs[v].confirmed THEN [r EXCEPT !.res = "CodeInvalid"]
  ELSE IF now > verifs[v].expires_at THEN [r EXCEPT !.res = "CodeExpired"]
  ELSE IF ~CompareHashAndPassword(verifs[v].code_hash, code) THEN [r EXCEPT !.pc = "inc"]
  ELSE [r EXCEPT !.pc = "mark"]

ConfirmStart(c, userID, code) ==
  /\ confirm[c].pc \in {"idle", "done"}
  /\ confirm' = [confirm EXCEPT ![c] = ConfirmDecide(userID, code)]
  /\ UNCHANGED <<docVars, smsVars, now, authVars, verifs, send, lockedOut, smsOut>>

\* attempts, incErr := IncrementAttempts(v.ID); the cap test
ConfirmInc(c) ==
  /\ confirm[c].pc = "inc"
  /\ verifs' = IncrementAttempts(confirm[c].vid)
  /\ LET attempts == verifs'[confirm[c].vid].attempts IN
       confirm' = [confirm EXCEPT
                     ![c].attempts = IF attempts >= maxConfirmAttempts THEN attempts ELSE NULL,
                     ![c].pc = IF attempts >= maxConfirmAttempts THEN "expire" ELSE "done",
                     ![c].res = IF attempts >= maxConfirmAttempts THEN "none" ELSE "CodeInvalid"]
  /\ UNCHANGED <<docVars, smsVars, now, authVars, send, lockedOut, smsOut>>

\* _ = ExpireNow(v.ID); return false, ErrTooManyAttempts
\* (a later clock reading is strictly later than the NOW() stored here)
ConfirmExpire(c) ==
  /\ confirm[c].pc = "expire"
  /\ now < OtpMaxTime
  /\ verifs' = ExpireNow(confirm[c].vid)
  /\ now' = now + 1
  /\ lockedOut' = lockedOut \cup {confirm[c].vid}
  /\ confirm' = [confirm EXCEPT ![c].pc = "done", ![c].attempts = NULL,
                                ![c].res = "TooManyAttempts"]
  /\ UNCHANGED <<docVars, smsVars, authVars, send, smsOut>>

\* MarkConfirmed(v.ID)
ConfirmMark(c) ==
  /\ confirm[c].pc = "mark"
  /\ verifs' = MarkConfirmed(confirm[c].vid)
  /\ confirm' = [confirm EXCEPT ![c].pc = "verify"]
  /\ UNCHANGED <<docVars, smsVars, now, authVars, send, lockedOut, smsOut>>

\* UserSvc.VerifyUser(userID); return true, nil
ConfirmVerify(c) ==
  /\ confirm[c].pc = "verify"
  /\ users' = VerifyUserRow(confirm[c].uid)
  /\ confirm' = [confirm EXCEPT ![c].pc = "done", ![c].res = "ok"]
  /\ UNCHANGED <<docVars, smsVars, now, nextTok, retired, login, refresh, verifs, send, lockedOut, smsOut>>

OtpTick == TickWithin(OtpMaxTime)


(* ======================= registration ======================= *)

\* no row of users carries this id yet
NoUserRow ==
  [ password_hash |-> NULL,
    is_verified |-> FALSE,
    verified_at |-> NULL,
    refresh_token |-> NULL,
    refresh_expires_at |-> NULL,
    refresh_revoked |-> FALSE ]

\* ids that name a row of users
Registered == {u \in Users : users[u] # NoUserRow}

\* POST /register: CreateUserWithPassword inserts the row; nothing else is called
Register(u) ==
  /\ u \notin Registered
  /\ users' = [users EXCEPT ![u] = NewUserRow(u)]
  /\ UNCHANGED <<now, nextTok, retired, login, refresh, otpVars, docVars, smsVars>>

(* ======================= document workflow ======================= *)

\* a role id no constant of authz names
UnknownRole == 0

Roles == {RoleSales, RoleStaff, RoleOperations, RoleAudit, RoleManagement, RoleAdmin, UnknownRole}

\* the action strings a client can put in POST /documents/:id/review
ReviewActions == {"approve", "return", "other"}

IsElevated(roleID) ==
  roleID = RoleOperations \/ roleID = RoleManagement \/ roleID = RoleAdmin

IsReadOnly(roleID) == roleID = RoleAudit

\* deal.OwnerID of the deal a document belongs to
DealOwner(d) == 1

\* no row of documents carries this id yet
NoDocRow == [status |-> "absent", signed_at |-> NULL]

\* the row CreateDocumentFromLead inserts
DraftRow == [status |-> "draft", signed_at |-> NULL]

\* UPDATE documents SET status=$1 WHERE id=$2
UpdateStatus(id, status) == [docs EXCEPT ![id].status = status]

\* UPDATE documents SET ..., status=$4, signed_at=$5 WHERE id=$6
Update(id, status, signedAt) ==
  [docs EXCEPT ![id].status = status, ![id].signed_at = signedAt]

IdleDoc == [pc |-> "idle", op |-> "none", doc |-> NULL,
            status |-> "none", signed_at |-> NULL]

\* no call has answered yet
NoAnswer == [op |-> "none", res |-> "none"]

\* the call answers with an error before any write
DocFail(op, d, err) ==
  [pc |-> "done", op |-> op, doc |-> d, status |-> "none", signed_at |-> NULL, res |-> err]

\* the call passed its checks; the write of status (and signed_at) is pending
DocProceed(op, d, status, signedAt) ==
  [pc |-> "write", op |-> op, doc |-> d, status |-> status, signed_at |-> signedAt,
   res |-> "none"]

\* a call runs up to its write: it either answers its error at once or is
\* left in flight with the write pending
DocStart(p, dec) ==
  /\ docreq[p].pc = "idle"
  /\ IF dec.pc = "write"
     THEN /\ docreq' = [docreq EXCEPT ![p] = [pc |-> "write", op |-> dec.op, doc |-> dec.doc,
                                              status |-> dec.status,
                                              signed_at |-> dec.signed_at]]
          /\ UNCHANGED docres
     ELSE /\ docres' = [op |-> dec.op, res |-> dec.res]
          /\ UNCHANGED docreq
  /\ UNCHANGED <<now, authVars, otpVars, smsVars, docs>>

\* DocRepo.Create of a draft document
CreateDocumentFromLead(d) ==
  /\ docs[d] = NoDocRow
  /\ docs' = [docs EXCEPT ![d] = DraftRow]
  /\ UNCHANGED <<now, authVars, otpVars, smsVars, docreq, docres>>

\* DocumentService.Submit up to the write
SubmitDecide(d, userID, roleID) ==
  IF IsReadOnly(roleID) THEN DocFail("submit", d, "read-only role")
  ELSE IF docs[d] = NoDocRow THEN DocFail("submit", d, "not found")
  ELSE IF roleID = RoleSales /\ DealOwner(d) # userID THEN DocFail("submit", d, "forbidden")
  ELSE IF docs[d].status # "draft" THEN DocFail("submit", d, "invalid status")
  ELSE DocProceed("submit", d, "under_review", NULL)

SubmitStart(p, d, userID, roleID) == DocStart(p, SubmitDecide(d, userID, roleID))

\* faulty variant: sales may review as well
CanReviewOrSales(roleID) == IsElevated(roleID) \/ roleID = RoleSales

\* the role test of Review
CanReview(roleID) ==
  roleID = RoleOperations \/ roleID = RoleManagement \/ roleID = RoleAdmin

\* DocumentService.Review up to the write
ReviewDecide(d, action, roleID) ==
  IF ~CanReview(roleID) THEN DocFail("review", d, "forbidden")
  ELSE IF docs[d] = NoDocRow THEN DocFail("review", d, "not found")
  ELSE IF docs[d].status # "under_review" THEN DocFail("review", d, "invalid status")
  ELSE IF action = "approve" THEN DocProceed("review", d, "approved", NULL)
  ELSE IF action = "return" THEN DocProceed("review", d, "returned", NULL)
  ELSE DocFail("review", d, "bad action")

ReviewStart(p, d, action, roleID) == DocStart(p, ReviewDecide(d, action, roleID))

\* the write of Submit and Review, and the answer
UpdateStatusStep(p) ==
  /\ docreq[p].pc = "write"
  /\ docreq[p].op \in {"submit", "review"}
  /\ docs' = UpdateStatus(docreq[p].doc, docreq[p].status)
  /\ docreq' = [docreq EXCEPT ![p] = IdleDoc]
  /\ docres' = [op |-> docreq[p].op, res |-> "ok"]
  /\ UNCHANGED <<now, authVars, otpVars, smsVars>>

\* the role test of Sign
CanSign(roleID) == roleID = RoleManagement \/ roleID = RoleAdmin

\* faulty variant: Sign takes the softer status rule of SignBySMS
SignableAlsoUnderReview(status) == status \in {"approved", "returned", "under_review"}

\* the status test of Sign
Signable(status) == status = "approved" \/ status = "returned"

\* DocumentService.Sign up to the write; now := time.Now()
SignDecide(d, roleID) ==
  IF ~CanSign(roleID) THEN DocFail("sign", d, "forbidden")
  ELSE IF docs[d] = NoDocRow THEN DocFail("sign", d, "not found")
  ELSE IF ~Signable(docs[d].status) THEN DocFail("sign", d, "invalid status")
  ELSE DocProceed("sign", d, "signed", now)

SignStart(p, d, roleID) == DocStart(p, SignDecide(d, roleID))

\* faulty variant: SignBySMS accepts a document in any status
SignBySMSDecideAnyStatus(d) ==
  IF docs[d] = NoDocRow THEN DocFail("signBySMS", d, "not found")
  ELSE DocProceed("signBySMS", d, "signed", now)

\* DocumentService.SignBySMS up to the write; now := time.Now()
SignBySMSDecide(d) ==
  IF docs[d] = NoDocRow THEN DocFail("signBySMS", d, "not found")
  ELSE IF ~(docs[d].status = "approved" \/ docs[d].status = "returned"
            \/ docs[d].status = "under_review")
       THEN DocFail("signBySMS", d, "invalid status")
  ELSE DocProceed("signBySMS", d, "signed", now)

SignBySMSStart(p, d) == DocStart(p, SignBySMSDecide(d))

\* the write of Sign and SignBySMS: DocRepo.Update(doc) with the row read
\* earlier, and the answer
UpdateStep(p) ==
  /\ docreq[p].pc = "write"
  /\ docreq[p].op \in {"sign", "signBySMS"}
  /\ docs' = Update(docreq[p].doc, docreq[p].status, docreq[p].signed_at)
  /\ docreq' = [docreq EXCEPT ![p] = IdleDoc]
  /\ docres' = [op |-> docreq[p].op, res |-> "ok"]
  /\ UNCHANGED <<now, authVars, otpVars, smsVars>>

\* idle request slots are interchangeable: the lowest one takes the next call
FreeSlot ==
  {p \in DOMAIN docreq :
     docreq[p].pc = "idle" /\ \A q \in DOMAIN docreq : docreq[q].pc = "idle" => p <= q}

DocTick == TickWithin(DocMaxTime)

(* ======================= document signing codes ======================= *)

\* the phone numbers a caller can name; NoPhone is the empty string
Phones == {1}
NoPhone == 0

\* s.CodeTTL, set to defaultVerificationTTL by NewSMSService
CodeTTL == defaultVerificationTTL

\* faulty variant: the age of the record is ignored
IsCodeExpiredNever(sentAt) == FALSE

\* time.Now().After(sentAt.Add(ttl))
IsCodeExpired(sentAt) == now > sentAt + CodeTTL

\* INSERT INTO sms_confirmations (...) VALUES (...) RETURNING id
\* (NULL in confirmed_at stands for the zero time SendSMS stores)
SmsCreate(documentID, phone, code, sentAt) ==
  Append(smsrecs, [id |-> Len(smsrecs) + 1, document_id |-> documentID, phone |-> phone,
                   sms_code |-> code, sent_at |-> sentAt,
                   confirmed |-> FALSE, confirmed_at |-> NULL])

\* ids of the records of one document
RecsOf(documentID) == {i \in DOMAIN smsrecs : smsrecs[i].document_id = documentID}

\* SELECT ... WHERE document_id = $1 ORDER BY sent_at DESC LIMIT 1 (NULL: sql.ErrNoRows)
GetLatestByDocumentID(documentID) ==
  IF RecsOf(documentID) = {} THEN NULL
  ELSE CHOOSE i \in RecsOf(documentID) :
         \A j \in RecsOf(documentID) : smsrecs[j].sent_at <= smsrecs[i].sent_at

\* faulty variant: only the latest record of the document is looked at
GetByDocumentIDAndCodeLatestOnly(documentID, code) ==
  LET latest == GetLatestByDocumentID(documentID) IN
  IF latest # NULL /\ smsrecs[latest].sms_code = code THEN {latest} ELSE {NULL}

\* SELECT ... WHERE document_id = $1 AND sms_code = $2, read with QueryRow:
\* of several matching rows the first one in an order the statement does not
\* fix is returned, so every matching row is a possible answer (NULL: none)
GetByDocumentIDAndCode(documentID, code) ==
  LET hit == {i \in RecsOf(documentID) : smsrecs[i].sms_code = code} IN
  IF hit = {} THEN {NULL} ELSE hit

\* faulty variant: the record is not written back
SmsUpdateSkipped(id, confirmed, confirmedAt) == smsrecs

\* UPDATE sms_confirmations SET ..., confirmed = $5, confirmed_at = $6 WHERE id = $7
SmsUpdate(id, confirmed, confirmedAt) ==
  [smsrecs EXCEPT ![id].confirmed = confirmed, ![id].confirmed_at = confirmedAt]

IdleSms == [pc |-> "idle", op |-> "none", doc |-> NULL, code |-> NULL, phone |-> NULL,
            rid |-> NULL, signed_at |-> NULL, res |-> "none"]

\* the call returns: only the operation, the record it used and the answer are kept
SmsDone(op, rid, res) == [IdleSms EXCEPT !.pc = "done", !.op = op, !.rid = rid, !.res = res]

(* ---- SMS_Service.SendSMS ---- *)

\* code := s.generateCode(); the text is built
SendSMSStart(documentID, phone, code) ==
  /\ smsreq.pc \in {"idle", "done"}
  /\ smsreq' = [IdleSms EXCEPT !.pc = "dispatch", !.op = "send", !.doc = documentID,
                               !.code = code, !.phone = phone]
  /\ UNCHANGED <<now, authVars, otpVars, docVars, smsrecs>>

\* s.Client.SendSMS(phone, text) of a new code: on failure nothing is stored
\* (the outcome of the gateway call is the input delivered)
SmsDispatch(delivered) ==
  /\ smsreq.pc = "dispatch"
  /\ smsreq' = IF delivered THEN [smsreq EXCEPT !.pc = "create"]
               ELSE SmsDone(smsreq.op, NULL, "DispatchError")
  /\ UNCHANGED <<now, authVars, otpVars, docVars, smsrecs>>

\* s.Repo.Create(rec) with SentAt = time.Now(); document_id must name a document
\* (a later clock reading is strictly later than the stored sent_at)
SmsCreateStep ==
  /\ smsreq.pc = "create"
  /\ IF docs[smsreq.doc] = NoDocRow
     THEN /\ smsreq' = SmsDone(smsreq.op, NULL, "DbError")
          /\ UNCHANGED <<now, smsrecs>>
     ELSE /\ now < SmsMaxTime
          /\ Len(smsrecs) < MaxSmsRows
          /\ smsrecs' = SmsCreate(smsreq.doc, smsreq.phone, smsreq.code, now)
          /\ now' = now + 1
          /\ smsreq' = SmsDone(smsreq.op, Len(smsrecs) + 1, "ok")
  /\ UNCHANGED <<authVars, otpVars, docVars>>

(* ---- SMS_Service.ResendSMS ---- *)

\* faulty variant: a resend always mints a new code
ResendDecideAlwaysNew(documentID, phone, code) ==
  IF phone = NoPhone THEN SmsDone("resend", NULL, "PhoneRequired")
  ELSE [IdleSms EXCEPT !.pc = "dispatch", !.op = "resend", !.doc = documentID,
                       !.code = code, !.phone = phone]

\* GetLatestByDocumentID and the choice between a new code and the stored one
ResendDecide(documentID, phone, code) ==
  LET existing == GetLatestByDocumentID(documentID) IN
  IF existing = NULL \/ smsrecs[existing].confirmed \/ IsCodeExpired(smsrecs[existing].sent_at)
  THEN IF phone = NoPhone THEN SmsDone("resend", NULL, "PhoneRequired")
       ELSE [IdleSms EXCEPT !.pc = "dispatch", !.op = "resend", !.doc = documentID,
                            !.code = code, !.phone = phone]
  ELSE [IdleSms EXCEPT !.pc = "redeliver", !.op = "resend", !.doc = documentID,
                       !.code = smsrecs[existing].sms_code,
                       !.phone = smsrecs[existing].phone, !.rid = existing]

ResendSMSStart(documentID, phone, code) ==
  /\ smsreq.pc \in {"idle", "done"}
  /\ smsreq' = ResendDecide(documentID, phone, code)
  /\ UNCHANGED <<now, authVars, otpVars, docVars, smsrecs>>

\* s.Client.SendSMS(existing.Phone, text) with the stored code
SmsRedeliver(delivered) ==
  /\ smsreq.pc = "redeliver"
  /\ smsreq' = SmsDone("resend", smsreq.rid, IF delivered THEN "ok" ELSE "ResendError")
  /\ UNCHANGED <<now, authVars, otpVars, docVars, smsrecs>>

(* ---- SMS_Service.ConfirmCode ---- *)

\* faulty variant: a record that is already confirmed is accepted again
ConfirmCodeDecideConfirmedAgain(documentID, code, rec) ==
  IF rec = NULL THEN SmsDone("confirm", NULL, "false")
  ELSE IF IsCodeExpired(smsrecs[rec].sent_at) THEN SmsDone("confirm", rec, "false")
  ELSE [IdleSms EXCEPT !.pc = "update", !.op = "confirm", !.doc = documentID,
                       !.code = code, !.rid = rec]

\* the tests on the record the lookup returned
ConfirmCodeDecide(documentID, code, rec) ==
  IF rec = NULL THEN SmsDone("confirm", NULL, "false")
  ELSE IF smsrecs[rec].confirmed \/ IsCodeExpired(smsrecs[rec].sent_at)
       THEN SmsDone("confirm", rec, "false")
  ELSE [IdleSms EXCEPT !.pc = "update", !.op = "confirm", !.doc = documentID,
                       !.code = code, !.rid = rec]

\* rec is the row GetByDocumentIDAndCode returned
ConfirmCodeStart(documentID, code, rec) ==
  /\ smsreq.pc \in {"idle", "done"}
  /\ rec \in GetByDocumentIDAndCode(documentID, code)
  /\ smsreq' = ConfirmCodeDecide(documentID, code, rec)
  /\ UNCHANGED <<now, authVars, otpVars, docVars, smsrecs>>

\* rec.Confirmed = true; rec.ConfirmedAt = time.Now(); s.Repo.Update(rec)
ConfirmCodeUpdate ==
  /\ smsreq.pc = "update"
  /\ smsrecs' = SmsUpdate(smsreq.rid, TRUE, now)
  /\ smsreq' = [smsreq EXCEPT !.pc = "sign"]
  /\ UNCHANGED <<now, authVars, otpVars, docVars>>

\* s.DocSvc.SignBySMS(documentID) up to its write; a refusal is returned as the error
ConfirmCodeSign ==
  /\ smsreq.pc = "sign"
  /\ LET dec == SignBySMSDecide(smsreq.doc) IN
       smsreq' = IF dec.pc = "write"
                 THEN [smsreq EXCEPT !.pc = "signwrite", !.signed_at = dec.signed_at]
                 ELSE SmsDone("confirm", smsreq.rid, dec.res)
  /\ UNCHANGED <<now, authVars, otpVars, docVars, smsrecs>>

\* the write of SignBySMS; ConfirmCode returns true
ConfirmCodeSignWrite ==
  /\ smsreq.pc = "signwrite"
  /\ docs' = Update(smsreq.doc, "signed", smsreq.signed_at)
  /\ smsreq' = SmsDone("confirm", smsreq.rid, "true")
  /\ UNCHANGED <<now, authVars, otpVars, docreq, docres, smsrecs>>

SmsTick == TickWithin(SmsMaxTime)

(* ======================= specifications ======================= *)

SmsIdle ==
  /\ smsrecs = <<>>
  /\ smsreq = IdleSms

DocIdle ==
  /\ docs = [d \in Docs |-> NoDocRow]
  /\ docreq = [p \in DocProcs |-> IdleDoc]
  /\ docres = NoAnswer
  /\ SmsIdle

OtpIdle ==
  /\ verifs = <<>>
  /\ send = [s \in SendProcs |-> IdleSend]
  /\ confirm = [c \in ConfirmProcs |-> IdleConfirm]
  /\ lockedOut = {}
  /\ smsOut = 0

AuthIdle ==
  /\ nextTok = 1
  /\ retired = [t \in Tokens |-> "none"]
  /\ login = [l \in LoginProcs |-> IdleLogin]
  /\ refresh = [p \in RefreshProcs |-> IdleRefresh]

Init ==
  /\ now = 0
  /\ users \in [Users -> UNION {{NewUserRow(u), VerifiedUserRow(u)} : u \in Users}]
  /\ \A u \in Users : users[u] \in {NewUserRow(u), VerifiedUserRow(u)}
  /\ AuthIdle
  /\ OtpIdle
  /\ DocIdle

\* tokens a client can present: any token issued so far, or garbage
Presentable == {t \in Tokens : t < nextTok} \cup {GarbageToken}

Next ==
  \/ \E l \in LoginProcs, e \in Users \cup {UnknownEmail}, pw \in Passwords : LoginStart(l, e, pw)
  \/ \E l \in LoginProcs : LoginStore(l)
  \/ \E p \in RefreshProcs, t \in Presentable : RefreshStart(p, t)
  \/ \E p \in RefreshProcs : RefreshRotate(p)
  \/ \E u \in Users : ClearRefresh(u)
  \/ Tick

Spec == Init /\ [][Next]_vars

(* ---- phone verification of freshly registered users ---- *)

\* nobody has registered yet
OtpInit ==
  /\ now = 0
  /\ users = [u \in Users |-> NoUserRow]
  /\ AuthIdle
  /\ OtpIdle
  /\ DocIdle

\* clients name the id POST /register answered with
OtpNext ==
  \/ \E u \in OtpUsers : Register(u)
  \/ \E s \in SendProcs, u \in OtpUsers \cap Registered, code \in Codes : SendStart(s, u, code)
  \/ \E s \in SendProcs : SendCreate(s)
  \/ \E s \in SendProcs, delivered \in BOOLEAN : SendDispatch(s, delivered)
  \/ \E c \in ConfirmProcs, u \in OtpUsers \cap Registered, code \in Codes : ConfirmStart(c, u, code)
  \/ \E c \in ConfirmProcs : ConfirmInc(c)
  \/ \E c \in ConfirmProcs : ConfirmExpire(c)
  \/ \E c \in ConfirmProcs : ConfirmMark(c)
  \/ \E c \in ConfirmProcs : ConfirmVerify(c)
  \/ OtpTick

SpecOTP == OtpInit /\ [][OtpNext]_vars

(* ---- code sends of several users over more than one resend window ---- *)

WindowCreate(s) == SendCreateWithin(s, MaxSends, WindowMaxTime)

WindowTick == TickWithin(WindowMaxTime)

WindowNext ==
  \/ \E s \in SendProcs, u \in Users, code \in Codes : SendStart(s, u, code)
  \/ \E s \in SendProcs : WindowCreate(s)
  \/ \E s \in SendProcs, delivered \in BOOLEAN : SendDispatch(s, delivered)
  \/ WindowTick

\* every account exists and none is verified
WindowInit ==
  /\ now = 0
  /\ users = [u \in Users |-> NewUserRow(u)]
  /\ AuthIdle
  /\ OtpIdle
  /\ DocIdle

SpecWindow == WindowInit /\ [][WindowNext]_vars

(* ---- the document workflow, requests of any caller interleaved ---- *)

DocInit ==
  /\ now = 0
  /\ users = [u \in Users |-> VerifiedUserRow(u)]
  /\ AuthIdle
  /\ OtpIdle
  /\ DocIdle

DocNext ==
  \/ \E d \in Docs : CreateDocumentFromLead(d)
  \/ \E p \in FreeSlot, d \in Docs, u \in Users, r \in Roles : SubmitStart(p, d, u, r)
  \/ \E p \in FreeSlot, d \in Docs, a \in ReviewActions, r \in Roles : ReviewStart(p, d, a, r)
  \/ \E p \in DocProcs : UpdateStatusStep(p)
  \/ \E p \in FreeSlot, d \in Docs, r \in Roles : SignStart(p, d, r)
  \/ \E p \in FreeSlot, d \in Docs : SignBySMSStart(p, d)
  \/ \E p \in DocProcs : UpdateStep(p)
  \/ DocTick

SpecDoc == DocInit /\ [][DocNext]_vars

(* ---- two /refresh requests racing with one valid token ---- *)

\* the token both requests present
RaceToken == 1

\* a user row as other operations can have left it
OtherRows(u) ==
  { NewUserRow(u), VerifiedUserRow(u),
    [VerifiedUserRow(u) EXCEPT !.refresh_revoked = TRUE] }

\* user 1 logged in earlier and holds RaceToken, still unexpired
RaceInit ==
  /\ now \in 0..MaxTime
  /\ \E e \in 0..(MaxTime + RefreshTTL), rest \in [Users -> UNION {OtherRows(u) : u \in Users}] :
       /\ e >= now
       /\ e <= now + RefreshTTL
       /\ \A u \in Users : rest[u] \in OtherRows(u)
       /\ users = [u \in Users |->
                     IF u = 1
                     THEN [VerifiedUserRow(u) EXCEPT !.refresh_token = RaceToken,
                                                !.refresh_expires_at = e]
                     ELSE rest[u]]
  /\ nextTok = RaceToken + 1
  /\ retired = [t \in Tokens |-> "none"]
  /\ login = [l \in LoginProcs |-> IdleLogin]
  /\ refresh = [p \in RefreshProcs |-> IdleRefresh]
  /\ OtpIdle
  /\ DocIdle

RaceStart(p) == refresh[p].pc = "idle" /\ RefreshStart(p, RaceToken)

RaceNext ==
  \/ \E p \in RefreshProcs : RaceStart(p)
  \/ \E p \in RefreshProcs : RefreshRotate(p)

SpecRace == RaceInit /\ [][RaceNext]_vars

(* ---- ConfirmUserCode calls racing on one verification record ---- *)

\* user 1 registered and was sent code 1 at time 0; up to 4 wrong codes were tried
CapInit ==
  /\ now = 1
  /\ users = [u \in Users |-> IF u = 1 THEN NewUserRow(u) ELSE NoUserRow]
  /\ AuthIdle
  /\ \E a \in 0..(maxConfirmAttempts - 1) :
       verifs = <<[id |-> 1, user_id |-> 1, code_hash |-> BcryptHash(1),
                   sent_at |-> 0, expires_at |-> defaultVerificationTTL,
                   confirmed |-> FALSE, attempts |-> a]>>
  /\ send = [s \in SendProcs |-> IdleSend]
  /\ confirm = [c \in CapProcs |-> IdleConfirm]
  /\ lockedOut = {}
  /\ smsOut = 1
  /\ DocIdle

CapStart(c, code) == confirm[c].pc = "idle" /\ ConfirmStart(c, 1, code)

CapNext ==
  \/ \E c \in CapProcs, code \in Codes : CapStart(c, code)
  \/ \E c \in CapProcs : ConfirmInc(c)
  \/ \E c \in CapProcs : ConfirmExpire(c)
  \/ \E c \in CapProcs : ConfirmMark(c)
  \/ \E c \in CapProcs : ConfirmVerify(c)

SpecCap == CapInit /\ [][CapNext]_vars

(* ---- signing a document by SMS code, next to the explicit workflow ---- *)

\* the document whose workflow is followed; the others stay drafts
Followed == 1

\* one workflow request and one SMS call at a time, none answered yet
SmsInit ==
  /\ now = 0
  /\ users = [u \in Users |-> VerifiedUserRow(u)]
  /\ AuthIdle
  /\ OtpIdle
  /\ docs = [d \in Docs |-> IF d = Followed THEN NoDocRow ELSE DraftRow]
  /\ docreq = [p \in {1} |-> IdleDoc]
  /\ docres = NoAnswer
  /\ SmsIdle

\* Submit and Review are called by callers that hold the role the step asks for
SmsNext ==
  \/ CreateDocumentFromLead(Followed)
  \/ \E p \in FreeSlot : SubmitStart(p, Followed, DealOwner(Followed), RoleSales)
  \/ \E p \in FreeSlot, a \in {"approve", "return"} :
       ReviewStart(p, Followed, a, RoleOperations)
  \/ \E p \in DOMAIN docreq : UpdateStatusStep(p)
  \/ \E p \in FreeSlot, roleID \in Roles : SignStart(p, Followed, roleID)
  \/ \E p \in DOMAIN docreq : UpdateStep(p)
  \/ \E d \in Docs, ph \in Phones, code \in Codes : SendSMSStart(d, ph, code)
  \/ \E delivered \in BOOLEAN : SmsDispatch(delivered)
  \/ SmsCreateStep
  \/ \E d \in Docs, ph \in Phones \cup {NoPhone}, code \in Codes : ResendSMSStart(d, ph, code)
  \/ \E delivered \in BOOLEAN : SmsRedeliver(delivered)
  \/ \E d \in Docs, code \in Codes, rec \in DOMAIN smsrecs \cup {NULL} :
       ConfirmCodeStart(d, code, rec)
  \/ ConfirmCodeUpdate
  \/ ConfirmCodeSign
  \/ ConfirmCodeSignWrite
  \/ SmsTick

SpecSms == SmsInit /\ [][SmsNext]_vars

(* ======================= claims ======================= *)

RefreshDone == {p \in RefreshProcs : refresh[p].pc = "done"}
RefreshWinners == {p \in RefreshDone : refresh[p].res = "ok"}

\* C1: of the /refresh requests racing with one valid token, under every
\* interleaving of their read and swap steps exactly one succeeds and gets a
\* new token, every other one answers "Invalid refresh token", and a request
\* that has not answered yet can always take its next step (no blocking).
C1_ExactlyOneRotationWins ==
  /\ RefreshDone # {} => Cardinality(RefreshWinners) = 1
  /\ \A p \in RefreshDone \ RefreshWinners : refresh[p].res = "TokenInvalid"
  /\ \A p \in RefreshWinners :
       /\ refresh[p].new \in Tokens \ {RaceToken}
       /\ Stored(refresh[p].new)
  /\ \A p \in RefreshProcs \ RefreshDone :
       nextTok <= MaxTokens => ENABLED (RaceStart(p) \/ RefreshRotate(p))

C1_Witness ==
  /\ Cardinality(RefreshDone) >= 2
  /\ \E p \in RefreshDone : refresh[p].res = "TokenInvalid" /\ refresh[p].uid # NULL
  /\ \E p \in RefreshDone : refresh[p].res = "ok"

\* C2: a refresh token that a successful rotation has replaced never rotates
\* successfully again, whatever logins, refreshes and revokes follow.
C2_RotatedTokenNeverSucceeds ==
  [][\A p \in RefreshProcs :
       (RefreshRotate(p) /\ refresh'[p].res = "ok")
         => retired[refresh[p].old] # "rotated"]_vars

C2_Witness ==
  \E p \in RefreshDone :
    /\ refresh[p].old \in Tokens
    /\ retired[refresh[p].old] = "rotated"
    /\ refresh[p].res = "TokenInvalid"
    /\ refresh[p].uid # NULL

CredentialsCorrect(email, pw) ==
  /\ GetByEmail(email) # NULL
  /\ CompareHashAndPassword(users[GetByEmail(email)].password_hash, pw)

\* C3: Login with the correct e-mail and password of a user whose is_verified
\* is false answers "Phone not verified", returns no token and leaves the
\* user's refresh_token, refresh_expires_at and refresh_revoked untouched.
C3_UnverifiedLoginGetsNoToken ==
  [][\A l \in LoginProcs, e \in Users, pw \in Passwords :
       (LoginStart(l, e, pw) /\ ~users[e].is_verified /\ CredentialsCorrect(e, pw))
         => /\ login'[l].pc = "done"
            /\ login'[l].res = "NotVerified"
            /\ login'[l].rt = NULL
            /\ users' = users
            /\ nextTok' = nextTok]_vars

C3_Witness ==
  \E l \in LoginProcs :
    /\ login[l].pc = "done"
    /\ login[l].res = "NotVerified"
    /\ CredentialsCorrect(login[l].email, login[l].pw)
    /\ ~users[login[l].email].is_verified
    /\ login[l].rt = NULL

\* C4: a Login whose password does not match answers InvalidCredentials
\* whether or not the e-mail belongs to a user (verified or not), and
\* NotVerified is answered only for correct credentials.
C4_LoginDoesNotRevealAccounts ==
  \A l \in LoginProcs :
    (login[l].pc = "done" /\ ~CredentialsCorrect(login[l].email, login[l].pw))
      => login[l].res = "InvalidCredentials"

\* C5: a successful Login stores the newly generated token with the expiry
\* computed by the handler and refresh_revoked = false, in place of whatever
\* the user held; a token displaced by a Login never rotates afterwards.
C5_LoginOverwritesSingleToken ==
  [][/\ \A l \in LoginProcs :
          LoginStore(l) =>
            LET u == login[l].uid IN
            /\ login'[l].res = "ok"
            /\ ~Stored(login[l].rt)
            /\ retired[login[l].rt] = "none"
            /\ users'[u].refresh_token = login[l].rt
            /\ users'[u].refresh_expires_at = login[l].exp
            /\ login[l].exp <= now + RefreshTTL
            /\ login[l].exp >= RefreshTTL
            /\ users'[u].refresh_revoked = FALSE
            /\ \A t \in Tokens : users[u].refresh_token = t => ~(\E x \in Users : users'[x].refresh_token = t)
     /\ \A p \in RefreshProcs :
          (RefreshRotate(p) /\ refresh'[p].res = "ok")
            => retired[refresh[p].old] # "login"]_vars

C5_Witness ==
  /\ \E l \in LoginProcs :
       /\ login[l].pc = "done"
       /\ login[l].res = "ok"
       /\ users[login[l].uid].refresh_token = login[l].rt
  /\ \E p \in RefreshDone :
       /\ refresh[p].old \in Tokens
       /\ retired[refresh[p].old] = "login"
       /\ refresh[p].res = "TokenInvalid"

\* C6: the swap never replaces a token that is expired or revoked at the
\* moment the swap is applied.
C6_SwapRefusesExpiredOrRevoked ==
  [][\A p \in RefreshProcs :
       (RefreshRotate(p) /\ refresh'[p].res = "ok")
         => LET u == GetByRefreshToken(refresh[p].old) IN
            /\ ~users[u].refresh_revoked
            /\ now <= users[u].refresh_expires_at]_vars

\* C7: a /refresh presenting a stored token whose refresh_expires_at is
\* earlier than now answers "Refresh token expired" at the pre-check, without
\* a swap attempt, and changes nothing on the user record.
C7_ExpiredTokenRejectedBeforeSwap ==
  [][\A p \in RefreshProcs, t \in Tokens :
       (RefreshStart(p, t) /\ Stored(t)
          /\ users[GetByRefreshToken(t)].refresh_expires_at < now)
         => /\ refresh'[p].pc = "done"
            /\ refresh'[p].res = "TokenExpired"
            /\ refresh'[p].new = NULL
            /\ users' = users]_vars

C7_Witness ==
  \E p \in RefreshDone :
    /\ refresh[p].res = "TokenExpired"
    /\ Stored(refresh[p].old)
    /\ users[GetByRefreshToken(refresh[p].old)].refresh_expires_at < now

\* C8: a revoke sets refresh_token and refresh_expires_at to NULL and
\* refresh_revoked to true, and no token displaced by a revoke rotates
\* afterwards, a rotation that had passed the pre-check included.
C8_RevokedTokenNeverRotates ==
  [][/\ \A u \in Users :
          ClearRefresh(u) =>
            /\ users'[u].refresh_token = NULL
            /\ users'[u].refresh_expires_at = NULL
            /\ users'[u].refresh_revoked = TRUE
            /\ \A t \in Tokens : users[u].refresh_token = t => retired'[t] = "revoke"
     /\ \A p \in RefreshProcs :
          (RefreshRotate(p) /\ refresh'[p].res = "ok")
            => retired[refresh[p].old] # "revoke"]_vars

C8_Witness ==
  \E p \in RefreshDone :
    /\ refresh[p].old \in Tokens
    /\ retired[refresh[p].old] = "revoke"
    /\ refresh[p].res = "TokenInvalid"
    /\ refresh[p].uid # NULL
    /\ users[refresh[p].uid].refresh_revoked

\* rows of the user whose sent_at lies within the trailing resend window
InWindow(userID) ==
  {i \in DOMAIN verifs : verifs[i].user_id = userID /\ now - verifs[i].sent_at <= resendWindow}

\* C9: SendUserSMS answers ErrResendThrottled exactly when at least 3 rows of
\* the user have sent_at within the trailing 10 minutes; a throttled call
\* creates no row and sends no SMS, and with fewer than 3 rows in the window
\* the call goes on to create a row.
C9_SendThrottledAtThreeInWindow ==
  [][\A s \in SendProcs, u \in Users, code \in Codes :
       SendStart(s, u, code) =>
         /\ (send'[s].res = "ResendThrottled")
              <=> (Cardinality(InWindow(u)) >= maxResendsPerWindow)
         /\ (send'[s].res = "ResendThrottled")
              => (send'[s].pc = "done" /\ verifs' = verifs /\ smsOut' = smsOut)
         /\ (send'[s].res # "ResendThrottled") => send'[s].pc = "create"]_vars

C9_Witness ==
  \E s \in SendProcs :
    /\ send[s].pc = "done"
    /\ send[s].res = "ResendThrottled"
    /\ Cardinality(InWindow(send[s].uid)) = maxResendsPerWindow
    /\ Cardinality(RowsOf(send[s].uid)) = maxResendsPerWindow

\* C10: the mismatch that brings attempts to 5 answers ErrTooManyAttempts and
\* force-expires the row; every ConfirmUserCode that starts afterwards while
\* that row is the user's latest fails at once, the correct code included,
\* and changes neither the row nor the user.
C10_LockedOutRecordNeverConfirms ==
  [][/\ \A c \in ConfirmProcs :
          ConfirmInc(c) =>
            /\ verifs'[confirm[c].vid].attempts = verifs[confirm[c].vid].attempts + 1
            /\ (confirm'[c].pc = "expire")
                 <=> (verifs'[confirm[c].vid].attempts >= maxConfirmAttempts)
     /\ \A c \in ConfirmProcs :
          ConfirmExpire(c) =>
            /\ confirm'[c].res = "TooManyAttempts"
            /\ confirm[c].vid \in lockedOut'
     /\ \A c \in ConfirmProcs, u \in OtpUsers, code \in Codes :
          (ConfirmStart(c, u, code) /\ GetLatestByUserID(u) \in lockedOut)
            => /\ confirm'[c].pc = "done"
               /\ confirm'[c].res \in {"CodeExpired", "CodeInvalid"}
               /\ verifs' = verifs
               /\ users' = users]_vars

C10_Witness ==
  \E c \in ConfirmProcs :
    /\ confirm[c].pc = "done"
    /\ confirm[c].res = "CodeExpired"
    /\ confirm[c].vid \in lockedOut
    /\ verifs[confirm[c].vid].attempts = maxConfirmAttempts
    /\ CompareHashAndPassword(verifs[confirm[c].vid].code_hash, confirm[c].code)
    /\ ~verifs[confirm[c].vid].confirmed
    /\ ~users[confirm[c].uid].is_verified

\* the row of the user that was inserted last (NULL: the user has no row)
NewestRow(userID) ==
  IF RowsOf(userID) = {} THEN NULL
  ELSE CHOOSE i \in RowsOf(userID) : \A j \in RowsOf(userID) : j <= i

\* the row can still be confirmed: not confirmed yet and not past expires_at
Confirmable(i) == ~verifs[i].confirmed /\ now <= verifs[i].expires_at

\* C11: after the current code of an unverified user was locked out by 5
\* wrong confirms, a resend with fewer than 3 sends in the window is not
\* throttled and creates a fresh record that becomes the user's latest; a
\* ConfirmUserCode with that new code while the record is within its lifetime
\* succeeds, marks the new record confirmed and leaves is_verified = true.
C11_ResendRecoversFromLockout ==
  [][/\ \A s \in SendProcs, u \in OtpUsers, code \in Codes :
          (SendStart(s, u, code) /\ RowsOf(u) # {} /\ NewestRow(u) \in lockedOut
             /\ Cardinality(InWindow(u)) < maxResendsPerWindow)
            => send'[s].pc = "create"
     /\ \A s \in SendProcs :
          SendCreate(s) =>
            /\ Len(verifs') = Len(verifs) + 1
            /\ verifs'[Len(verifs')].user_id = send[s].uid
            /\ CompareHashAndPassword(verifs'[Len(verifs')].code_hash, send[s].code)
            /\ verifs'[Len(verifs')].attempts = 0
            /\ ~verifs'[Len(verifs')].confirmed
            /\ verifs'[Len(verifs')].expires_at >= now'
            /\ Len(verifs') \notin lockedOut'
            /\ GetLatestByUserID(send[s].uid)' = Len(verifs')
     /\ \A c \in ConfirmProcs, u \in OtpUsers, code \in Codes :
          (ConfirmStart(c, u, code) /\ RowsOf(u) \cap lockedOut # {}
             /\ NewestRow(u) \notin lockedOut /\ Confirmable(NewestRow(u))
             /\ CompareHashAndPassword(verifs[NewestRow(u)].code_hash, code))
            => (confirm'[c].pc = "mark" /\ confirm'[c].vid = NewestRow(u))
     /\ \A c \in ConfirmProcs :
          ConfirmMark(c) => (verifs'[confirm[c].vid].confirmed /\ confirm'[c].pc = "verify")
     /\ \A c \in ConfirmProcs :
          ConfirmVerify(c) =>
            /\ confirm'[c].pc = "done"
            /\ confirm'[c].res = "ok"
            /\ users'[confirm[c].uid].is_verified]_vars

C11_Witness ==
  \E c \in ConfirmProcs :
    /\ confirm[c].pc = "done"
    /\ confirm[c].res = "ok"
    /\ confirm[c].vid = NewestRow(confirm[c].uid)
    /\ verifs[confirm[c].vid].confirmed
    /\ users[confirm[c].uid].is_verified
    /\ \E i \in RowsOf(confirm[c].uid) \cap lockedOut :
         /\ i < confirm[c].vid
         /\ verifs[i].attempts = maxConfirmAttempts
         /\ ~verifs[i].confirmed

\* C12: POST /register leaves a verification record for the new user, so the
\* user can be confirmed through /register/confirm without a resend.
C12_RegisterSendsCode ==
  [][\A u \in OtpUsers :
       Register(u) =>
         /\ ~users'[u].is_verified
         /\ \E i \in DOMAIN verifs' : verifs'[i].user_id = u /\ ~verifs'[i].confirmed]_vars

\* C13 as stated: once a newer code was sent, a ConfirmUserCode carrying the
\* correct code of an older row never succeeds.
C13_OlderCodeNeverSucceeds ==
  [][\A c \in ConfirmProcs, u \in OtpUsers, code \in Codes :
       (ConfirmStart(c, u, code)
          /\ \E i \in RowsOf(u) : /\ i # NewestRow(u)
                                  /\ CompareHashAndPassword(verifs[i].code_hash, code))
         => confirm'[c].pc # "mark"]_vars

\* C13: a ConfirmUserCode consults only the user's row with the latest
\* sent_at: a code that matches an older row but not the latest one never
\* succeeds (generateCode can draw the code of an older row again), and the
\* call modifies no row other than the one that was the latest when it
\* started.
C13_OnlyLatestRowConsulted ==
  [][/\ \A c \in ConfirmProcs, u \in OtpUsers, code \in Codes :
          ConfirmStart(c, u, code) =>
            /\ verifs' = verifs
            /\ RowsOf(u) # {} =>
                 /\ confirm'[c].vid = NewestRow(u)
                 /\ \A j \in RowsOf(u) : verifs[j].sent_at <= verifs[NewestRow(u)].sent_at
                 /\ (confirm'[c].pc = "mark")
                      => CompareHashAndPassword(verifs[NewestRow(u)].code_hash, code)
                 /\ (/\ ~CompareHashAndPassword(verifs[NewestRow(u)].code_hash, code)
                     /\ \E i \in RowsOf(u) : CompareHashAndPassword(verifs[i].code_hash, code))
                      => confirm'[c].pc # "mark"
     /\ \A c \in ConfirmProcs :
          (ConfirmInc(c) \/ ConfirmExpire(c) \/ ConfirmMark(c) \/ ConfirmVerify(c)) =>
            \A i \in DOMAIN verifs : i # confirm[c].vid => verifs'[i] = verifs[i]]_vars

C13_Witness ==
  \E c \in ConfirmProcs :
    /\ confirm[c].pc = "done"
    /\ confirm[c].res = "CodeInvalid"
    /\ confirm[c].vid # NULL
    /\ confirm[c].vid = NewestRow(confirm[c].uid)
    /\ verifs[confirm[c].vid].attempts = 1
    /\ ~CompareHashAndPassword(verifs[confirm[c].vid].code_hash, confirm[c].code)
    /\ \E i \in RowsOf(confirm[c].uid) :
         /\ i < confirm[c].vid
         /\ CompareHashAndPassword(verifs[i].code_hash, confirm[c].code)
         /\ verifs[i].attempts = 0
         /\ ~verifs[i].confirmed

C15_ReconfirmKeepsVerifiedAt ==
  [][\A c \in ConfirmProcs :
       (ConfirmVerify(c) /\ users[confirm[c].uid].is_verified) =>
         /\ confirm'[c].res = "ok"
         /\ users'[confirm[c].uid].is_verified
         /\ users'[confirm[c].uid].verified_at = users[confirm[c].uid].verified_at]_vars

\* C16: Submit goes on to its write only for a caller that owns the deal or
\* holds an elevated role, that is not the read-only audit role, and on a
\* document in draft; every other call fails and leaves the document as it was.
C16_SubmitNeedsOwnerOrElevated ==
  [][\A p \in DocProcs, d \in Docs, u \in Users, r \in Roles :
       SubmitStart(p, d, u, r) =>
         /\ docs' = docs
         /\ (docreq'[p].pc = "write") =>
              /\ u = DealOwner(d) \/ IsElevated(r)
              /\ ~IsReadOnly(r)
              /\ docs[d].status = "draft"
              /\ docreq'[p].status = "under_review"
         /\ (docreq'[p].pc # "write") =>
              (docres'.op = "submit" /\ docres'.res \notin {"ok", "none"})]_vars

\* C17: Review goes on to its write only for role operations, management or
\* admin (sales is answered 'forbidden'), on a document it read as
\* under_review, with action approve or return; the write sets status to
\* approved or returned respectively and nothing else. A permitted reviewer
\* of a document read as draft, approved, returned or signed is answered
\* 'invalid status', and a call that fails writes nothing.
C17_ReviewNeedsRoleAndUnderReview ==
  [][/\ \A p \in DocProcs, d \in Docs, a \in ReviewActions, r \in Roles :
          ReviewStart(p, d, a, r) =>
            /\ docs' = docs
            /\ (docreq'[p].pc = "write") =>
                 /\ r \in {RoleOperations, RoleManagement, RoleAdmin}
                 /\ docs[d].status = "under_review"
                 /\ a \in {"approve", "return"}
                 /\ docreq'[p].op = "review"
                 /\ docreq'[p].doc = d
                 /\ docreq'[p].status = (IF a = "approve" THEN "approved" ELSE "returned")
            /\ (docreq'[p].pc # "write") =>
                 (docres'.op = "review" /\ docres'.res \notin {"ok", "none"})
            /\ (r = RoleSales) => (docreq' = docreq /\ docres'.res = "forbidden")
            /\ (/\ r \in {RoleOperations, RoleManagement, RoleAdmin}
                /\ docs[d].status \in {"draft", "approved", "returned", "signed"})
                 => (docreq' = docreq /\ docres'.res = "invalid status")
     /\ \A p \in DocProcs :
          (UpdateStatusStep(p) /\ docreq[p].op = "review") =>
            /\ docreq[p].status \in {"approved", "returned"}
            /\ docs'[docreq[p].doc].status = docreq[p].status
            /\ docs'[docreq[p].doc].signed_at = docs[docreq[p].doc].signed_at
            /\ \A d \in Docs : d # docreq[p].doc => docs'[d] = docs[d]
            /\ docres' = [op |-> "review", res |-> "ok"]]_vars

C17_Witness ==
  /\ docres = [op |-> "review", res |-> "invalid status"]
  /\ \A p \in DocProcs : docreq[p].pc = "idle"
  /\ \E d \in Docs : docs[d].status \in {"approved", "returned"}

C19_SignedIsTerminal ==
  [][\A d \in Docs : docs[d].status = "signed" => docs'[d] = docs[d]]_vars

\* C20: in every reachable state a document's signed_at is non-null exactly
\* when its status is signed.
C20_SignedAtIffSigned ==
  \A d \in Docs : (docs[d].signed_at # NULL) <=> (docs[d].status = "signed")

\* the caller of Submit holds what the workflow requires of it
MaySubmit(d, userID, roleID) ==
  (userID = DealOwner(d) \/ IsElevated(roleID)) /\ ~IsReadOnly(roleID)

\* the failure kinds of a role or ownership refusal
ForbiddenKinds == {"forbidden", "read-only role"}

\* C23: a failed Submit, Review or Sign answers a role/ownership refusal
\* ('forbidden', 'read-only role') or a wrong source state ('invalid status')
\* as different kinds and leaves the document as it was; a caller lacking
\* the required role is answered the forbidden kind whatever the status of
\* the document.
C23_FailureKindsDistinguished ==
  [][/\ \A p \in DocProcs, d \in Docs, u \in Users, r \in Roles :
          (SubmitStart(p, d, u, r) /\ docs[d] # NoDocRow) =>
            /\ docs' = docs
            /\ ~MaySubmit(d, u, r) => (docreq' = docreq /\ docres'.res \in ForbiddenKinds)
            /\ (MaySubmit(d, u, r) /\ docs[d].status # "draft")
                 => (docreq' = docreq /\ docres'.res = "invalid status")
     /\ \A p \in DocProcs, d \in Docs, a \in ReviewActions, r \in Roles :
          (ReviewStart(p, d, a, r) /\ docs[d] # NoDocRow) =>
            /\ docs' = docs
            /\ r \notin {RoleOperations, RoleManagement, RoleAdmin}
                 => (docreq' = docreq /\ docres'.res \in ForbiddenKinds)
            /\ (r \in {RoleOperations, RoleManagement, RoleAdmin}
                  /\ docs[d].status # "under_review")
                 => (docreq' = docreq /\ docres'.res = "invalid status")
     /\ \A p \in DocProcs, d \in Docs, r \in Roles :
          (SignStart(p, d, r) /\ docs[d] # NoDocRow) =>
            /\ docs' = docs
            /\ r \notin {RoleManagement, RoleAdmin}
                 => (docreq' = docreq /\ docres'.res \in ForbiddenKinds)
            /\ (r \in {RoleManagement, RoleAdmin}
                  /\ docs[d].status \notin {"approved", "returned"})
                 => (docreq' = docreq /\ docres'.res = "invalid status")]_vars

\* C24: ConfirmUserCode decides on the user's latest record in this order:
\* no record or record confirmed -> ErrCodeInvalid; now after expires_at ->
\* ErrCodeExpired with attempts untouched; mismatch -> attempts + 1 and
\* ErrCodeInvalid below 5, ErrTooManyAttempts with expires_at set to now from
\* 5 on; match -> the call goes on to confirm. No failing outcome marks the
\* record confirmed or changes the user.
C24_ConfirmOutcomeOrder ==
  [][/\ \A c \in ConfirmProcs, u \in OtpUsers, code \in Codes :
          ConfirmStart(c, u, code) =>
            /\ verifs' = verifs /\ users' = users
            /\ confirm'[c].vid = NewestRow(u)
            /\ IF NewestRow(u) = NULL
               THEN confirm'[c].pc = "done" /\ confirm'[c].res = "CodeInvalid"
               ELSE IF verifs[NewestRow(u)].confirmed
               THEN confirm'[c].pc = "done" /\ confirm'[c].res = "CodeInvalid"
               ELSE IF now > verifs[NewestRow(u)].expires_at
               THEN confirm'[c].pc = "done" /\ confirm'[c].res = "CodeExpired"
               ELSE IF ~CompareHashAndPassword(verifs[NewestRow(u)].code_hash, code)
               THEN confirm'[c].pc = "inc"
               ELSE confirm'[c].pc = "mark"
     /\ \A c \in ConfirmProcs :
          ConfirmInc(c) =>
            /\ verifs' = [verifs EXCEPT ![confirm[c].vid].attempts =
                                          verifs[confirm[c].vid].attempts + 1]
            /\ users' = users
            /\ IF verifs'[confirm[c].vid].attempts < maxConfirmAttempts
               THEN confirm'[c].pc = "done" /\ confirm'[c].res = "CodeInvalid"
               ELSE confirm'[c].pc = "expire"
     /\ \A c \in ConfirmProcs :
          ConfirmExpire(c) =>
            /\ confirm'[c].pc = "done" /\ confirm'[c].res = "TooManyAttempts"
            /\ verifs' = [verifs EXCEPT ![confirm[c].vid].expires_at = now]
            /\ users' = users]_vars

C24_Witness ==
  \E c \in ConfirmProcs :
    /\ confirm[c].pc = "done"
    /\ confirm[c].res = "TooManyAttempts"
    /\ verifs[confirm[c].vid].attempts = maxConfirmAttempts
    /\ verifs[confirm[c].vid].expires_at < now
    /\ ~verifs[confirm[c].vid].confirmed
    /\ ~users[confirm[c].uid].is_verified
    /\ users[confirm[c].uid].verified_at = NULL

\* the wrong codes compared against a record so far: the counted ones and
\* those whose call has not run its increment yet
WrongCompared(i) ==
  verifs[i].attempts
    + Cardinality({c \in DOMAIN confirm : confirm[c].pc = "inc" /\ confirm[c].vid = i})

\* C25: with ConfirmUserCode calls of one user running together, the codes
\* compared against one record exceed the cap of 5 by at most one, and no
\* call marks a record confirmed whose attempts counter has passed the cap.
C25_CapOffByAtMostOne ==
  [][/\ \A i \in DOMAIN verifs : WrongCompared(i)' <= maxConfirmAttempts + 1
     /\ \A c \in DOMAIN confirm :
          ConfirmMark(c) => verifs[confirm[c].vid].attempts <= maxConfirmAttempts]_vars

\* C30: SendUserSMS inserts the verification row before it hands the text to
\* the gateway and keeps it when the gateway fails: the failed call answers a
\* dispatch error, not a policy error, changes no row and sends nothing, and
\* the rows of failed dispatches count toward the throttle like any other.
C30_FailedDispatchKeepsRow ==
  [][/\ \A s \in SendProcs :
          SendCreateWithin(s, MaxSends, WindowMaxTime) =>
            /\ send'[s].pc = "dispatch"
            /\ smsOut' = smsOut
            /\ GetLatestByUserID(send[s].uid)' = Len(verifs')
            /\ CompareHashAndPassword(verifs'[Len(verifs')].code_hash, send[s].code)
     /\ \A s \in SendProcs :
          SendDispatch(s, FALSE) =>
            /\ send'[s].pc = "done"
            /\ send'[s].res = "DispatchError"
            /\ verifs' = verifs
            /\ smsOut' = smsOut
            /\ \E i \in RowsOf(send[s].uid) :
                 CompareHashAndPassword(verifs[i].code_hash, send[s].code)
     /\ \A s \in SendProcs, u \in Users, code \in Codes :
          (SendStart(s, u, code) /\ Cardinality(InWindow(u)) >= maxResendsPerWindow)
            => (send'[s].pc = "done" /\ send'[s].res = "ResendThrottled")]_vars

C30_Witness ==
  \E s \in SendProcs :
    /\ send[s].pc = "done"
    /\ send[s].res = "ResendThrottled"
    /\ smsOut = 0
    /\ Cardinality(InWindow(send[s].uid)) >= maxResendsPerWindow

\* a record a ConfirmCode call may still use: not confirmed and not older than the TTL
LiveRec(i) == ~smsrecs[i].confirmed /\ now <= smsrecs[i].sent_at + CodeTTL

\* the statuses SignBySMS accepts
SmsSignable == {"under_review", "approved", "returned"}

C22_ConfirmSignsDocument ==
  [][ /\ \A d \in Docs, code \in Codes, rec \in DOMAIN smsrecs :
           (ConfirmCodeStart(d, code, rec) /\ LiveRec(rec)) =>
             (smsreq'.pc = "update" /\ smsreq'.rid = rec /\ smsreq'.doc = d)
      /\ ConfirmCodeUpdate =>
           /\ smsrecs'[smsreq.rid].confirmed
           /\ smsrecs'[smsreq.rid].confirmed_at = now
           /\ smsreq'.pc = "sign"
      /\ (ConfirmCodeSign /\ docs[smsreq.doc].status \in SmsSignable) =>
           (smsreq'.pc = "signwrite" /\ smsreq'.signed_at = now)
      /\ ConfirmCodeSignWrite =>
           /\ docs'[smsreq.doc].status = "signed"
           /\ docs'[smsreq.doc].signed_at = smsreq.signed_at
           /\ smsreq.signed_at # NULL
           /\ smsrecs'[smsreq.rid].confirmed
           /\ smsrecs'[smsreq.rid].confirmed_at # NULL
           /\ smsreq'.pc = "done" /\ smsreq'.res = "true"
      /\ (smsreq'.res = "true" /\ smsreq' # smsreq) =>
           (ConfirmCodeSignWrite /\ docs'[smsreq.doc].status = "signed")
    ]_vars

\* a document was submitted, never reviewed, and a ConfirmCode call signed it
C22_Witness ==
  /\ smsreq.pc = "done" /\ smsreq.op = "confirm" /\ smsreq.res = "true"
  /\ docs[Followed].status = "signed" /\ docs[Followed].signed_at # NULL
  /\ smsrecs[smsreq.rid].confirmed /\ smsrecs[smsreq.rid].confirmed_at # NULL
  /\ docres = [op |-> "submit", res |-> "ok"]
  /\ \A p \in DOMAIN docreq : docreq[p].pc = "idle"

\* C26: ResendSMS with a latest record that is unconfirmed and unexpired
\* re-delivers the stored code to the stored phone and leaves the
\* confirmation records as they are; with no record, or a latest record
\* that is confirmed or expired, it answers an error for an empty phone
\* with nothing sent or stored, and for a non-empty phone goes on exactly
\* as SendSMS does with a new code.
C26_ResendRedeliversLiveCode ==
  [][ /\ \A d \in Docs, ph \in Phones \cup {NoPhone}, code \in Codes :
           ResendSMSStart(d, ph, code) =>
             LET latest == GetLatestByDocumentID(d) IN
             /\ smsrecs' = smsrecs
             /\ IF latest # NULL /\ LiveRec(latest)
                THEN /\ smsreq'.pc = "redeliver"
                     /\ smsreq'.rid = latest
                     /\ smsreq'.code = smsrecs[latest].sms_code
                     /\ smsreq'.phone = smsrecs[latest].phone
                ELSE IF ph = NoPhone
                THEN smsreq'.pc = "done" /\ smsreq'.res = "PhoneRequired"
                ELSE smsreq' = [IdleSms EXCEPT !.pc = "dispatch", !.op = "resend", !.doc = d,
                                               !.code = code, !.phone = ph]
      /\ \A delivered \in BOOLEAN :
           SmsRedeliver(delivered) =>
             /\ smsrecs' = smsrecs
             /\ smsreq'.pc = "done"
             /\ smsreq'.res = (IF delivered THEN "ok" ELSE "ResendError")
      /\ \A d \in Docs, ph \in Phones, code \in Codes :
           SendSMSStart(d, ph, code) =>
             smsreq' = [IdleSms EXCEPT !.pc = "dispatch", !.op = "send", !.doc = d,
                                       !.code = code, !.phone = ph]
      /\ smsrecs' # smsrecs =>
           \/ SmsCreateStep /\ smsreq.pc = "create"
           \/ ConfirmCodeUpdate
    ]_vars

\* the stored code of a live record was delivered again; the record is as it was sent
C26_Witness ==
  /\ smsreq.pc = "done" /\ smsreq.op = "resend" /\ smsreq.res = "ok"
  /\ Len(smsrecs) = 1
  /\ smsreq.rid = 1
  /\ smsrecs[1].sent_at + 1 < now
  /\ LiveRec(1)

\* C27: ConfirmCode answers false, without an error and without a change
\* to any confirmation record or document, when no record of the document
\* carries the code or the record found is confirmed or older than the TTL;
\* it answers an error only when SignBySMS refused.
C27_ConfirmSoftFails ==
  [][ /\ \A d \in Docs, code \in Codes, rec \in DOMAIN smsrecs \cup {NULL} :
           (/\ ConfirmCodeStart(d, code, rec)
            /\ \/ rec = NULL
               \/ smsrecs[rec].confirmed
               \/ now > smsrecs[rec].sent_at + CodeTTL) =>
             /\ smsreq'.pc = "done" /\ smsreq'.op = "confirm" /\ smsreq'.res = "false"
             /\ smsrecs' = smsrecs
             /\ docs' = docs
      /\ \A d \in Docs, code \in Codes :
           (ConfirmCodeStart(d, code, NULL)) =>
             ~\E i \in RecsOf(d) : smsrecs[i].sms_code = code
      /\ (/\ smsreq' # smsreq
          /\ smsreq'.op = "confirm" /\ smsreq'.pc = "done"
          /\ smsreq'.res \notin {"true", "false"}) =>
           /\ ConfirmCodeSign
           /\ smsreq'.res \in {"not found", "invalid status"}
           /\ \/ docs[smsreq.doc] = NoDocRow
              \/ docs[smsreq.doc].status \notin SmsSignable
    ]_vars

\* a ConfirmCode call found a record older than the TTL and answered false
C27_Witness ==
  /\ smsreq.pc = "done" /\ smsreq.op = "confirm" /\ smsreq.res = "false"
  /\ smsreq.rid # NULL
  /\ ~smsrecs[smsreq.rid].confirmed
  /\ now > smsrecs[smsreq.rid].sent_at + CodeTTL

\* the records of a document that carry a code
Carrying(documentID, code) == {i \in RecsOf(documentID) : smsrecs[i].sms_code = code}

\* C28 as stated: a code carried by a record that stayed confirmed never signs
\* the document afterwards.
C28_SameCodeNeverSignsAgain ==
  [][ \A d \in Docs, code \in Codes, rec \in DOMAIN smsrecs \cup {NULL} :
        (/\ ConfirmCodeStart(d, code, rec)
         /\ \E i \in Carrying(d, code) : smsrecs[i].confirmed) =>
          smsreq'.res = "false"
    ]_vars

\* C28, amended: ConfirmCode marks the record confirmed before SignBySMS
\* runs; when SignBySMS refuses, ConfirmCode answers its error, the document
\* is unchanged and the record stays confirmed for good, so no later
\* ConfirmCode call that is handed this record gets to the sign: the code
\* can sign afterwards only through another live record that carries it.
C28_ConfirmedRecordNeverSignsAgain ==
  [][ /\ (ConfirmCodeSign /\ SignBySMSDecide(smsreq.doc).pc = "done") =>
           /\ smsrecs[smsreq.rid].confirmed
           /\ smsreq'.pc = "done"
           /\ smsreq'.res \in {"not found", "invalid status"}
           /\ smsreq'.rid = smsreq.rid
           /\ docs' = docs
           /\ smsrecs' = smsrecs
      /\ \A i \in DOMAIN smsrecs : smsrecs[i].confirmed => smsrecs'[i].confirmed
      /\ \A d \in Docs, code \in Codes, rec \in DOMAIN smsrecs :
           (ConfirmCodeStart(d, code, rec) /\ smsrecs[rec].confirmed) =>
             (smsreq'.pc = "done" /\ smsreq'.res = "false" /\ docs' = docs)
      /\ \A d \in Docs, code \in Codes, rec \in DOMAIN smsrecs \cup {NULL} :
           (ConfirmCodeStart(d, code, rec) /\ smsreq'.pc = "update") =>
             (rec \in Carrying(d, code) /\ ~smsrecs[rec].confirmed)
    ]_vars

\* SignBySMS refused a draft document; the record is confirmed although the
\* document has reached under_review since
C28_Witness ==
  /\ smsreq.pc = "done" /\ smsreq.op = "confirm" /\ smsreq.res = "invalid status"
  /\ smsrecs[smsreq.rid].confirmed
  /\ docs[smsrecs[smsreq.rid].document_id].status = "under_review"

====
